---- MODULE Spec2Model ----
(***************************************************************************)
(* TripGenie: the tool-calling planner (services/agent_service.py), the    *)
(* JSON trip archive (services/storage_service.py), the input validator    *)
(* and the form that ties them together, as state machines.                *)
(*                                                                         *)
(* Planner.  TripGenieAgent compiles a LangGraph StateGraph with two nodes *)
(* ("agent", "tools"), the edge START -> agent, the conditional edge       *)
(* agent -> tools_condition and the edge tools -> agent.  One call of      *)
(* generate_trip_plan / stream_trip_plan is a run; a run executes the      *)
(* graph one super-step (one node) at a time.  The chat model and the      *)
(* search tools are the environment: what they answer is chosen by \E.     *)
(*                                                                         *)
(* Archive.  TripStorage keeps one JSON file that every operation reads    *)
(* whole and rewrites whole; ids and timestamps come from the wall clock.  *)
(*                                                                         *)
(* Validation.  TripValidator (utils/validators.py) as operators on texts, *)
(* a text being a sequence of runs of one character.                       *)
(*                                                                         *)
(* Form.  The "Plan Trip" tab of ui/app.py: a submission searches the      *)
(* typed locations, validates the selected ones, calls generate_trip_plan  *)
(* and saves what it returned.                                             *)
(***************************************************************************)
EXTENDS Integers, Sequences, FiniteSets, TLC

(***************************************************************************)
(* Bounds of the model and constants of the program.                       *)
(***************************************************************************)
\* Most tool requests one assistant message of the model carries.
MaxCalls == 2
\* Model turns in which the chat model's answer is unconstrained; afterwards
\* a run's model either keeps asking for one tool (looping) or answers.
MaxTurns == 2
\* LangGraph's default recursion_limit: app.invoke(initial_state) and
\* app.stream(initial_state, ...) pass no config, so a run may execute this
\* many super-steps and raises GraphRecursionError when more are pending.
RecursionLimit == 25
\* Clock readings per second: datetime.now() has a finer grain than the
\* "%Y%m%d_%H%M%S" of a trip id.
TicksPerSecond == 2
\* The clock readings run from 0 to MaxTime.
MaxTime == 3
\* Most records save_trip is let add to the archive.
MaxRecords == 2

Runs == {"r1", "r2"}
Queries == {"q1", "q2"}
Plans == {"planA", "planB"}
Modes == {"generate", "stream"}

NoId == <<>>
\* How many tool requests an assistant message of the model may carry.
CallCounts == {0, 1, MaxCalls}

(***************************************************************************)
(* Messages.  role is the message class (HumanMessage, SystemMessage,      *)
(* AIMessage, ToolMessage); calls is AIMessage.tool_calls (the call ids);  *)
(* id is ToolMessage.tool_call_id; run records the run a message was made  *)
(* for (history only: the program keeps no such field).                    *)
(***************************************************************************)
Msg(role, content, calls, id, run) ==
    [role |-> role, content |-> content, calls |-> calls, id |-> id, run |-> run]

SystemMessage == Msg("system", "SYSTEM_PROMPT", <<>>, NoId, "shared")

HumanMessage(q, r) == Msg("human", q, <<>>, NoId, r)

\* The chat model's answer on model turn t of run r: n tool requests with
\* fresh call identifiers, or (n = 0) the final content c.
ModelResponse(r, t, n, c) ==
    Msg("ai", IF n = 0 THEN c ELSE "searching", [k \in 1..n |-> <<t, k>>], NoId, r)

\* str(e) of the exception the chat model raised is part of the text.
AgentErrorText ==
    "I encountered an error while processing your request: llm_error. Please try again or rephrase your query."

\* A faulty variant: the error message is built without its text.
AgentErrorMessageBlank(r) == Msg("ai", "", <<>>, NoId, r)

AgentErrorMessage(r) == Msg("ai", AgentErrorText, <<>>, NoId, r)

GenerateErrorText == "Error: Unable to generate trip plan. GraphRecursionError"

StreamErrorMessage(r) == Msg("ai", "Error: GraphRecursionError", <<>>, NoId, r)

Last(s) == s[Len(s)]

VARIABLES
    pc,         \* run -> "idle" | "agent" | "tools" | "done"
    mode,       \* run -> "none" | "generate" | "stream": the entry point called
    looping,    \* run -> whether this run's model asks for a tool on every late turn
    conv,       \* state key -> state["messages"] of the graph run
    steps,      \* run -> super-steps executed
    turns,      \* run -> the nodes executed so far, in order (history)
    lastSent,   \* run -> the message list of the latest llm_with_tools.invoke
    llmFailed,  \* run -> the chat model raised in this run (history)
    raised,     \* run -> an exception left app.invoke / app.stream
    yielded,    \* run -> what stream_trip_plan has yielded
    result,     \* run -> what generate_trip_plan returned ("" before it returns)
    telemetry   \* run -> the statuses given to logger.log_api_call, in order

plannerVars == <<pc, mode, looping, conv, steps, turns, lastSent, llmFailed,
                 raised, yielded, result, telemetry>>

VARIABLES
    file,       \* the backing file: [ok |-> it decodes, data |-> the decoded list]
    now,        \* the wall clock, in ticks
    ret         \* the latest archive operation and what it returned

\* History of the archive's latest operation, kept for the claims: listed is
\* what the latest get_all_trips was given and returned; before is the list
\* the latest delete_trip read; wrote is the outcome of the latest
\* operation's _write_data call ("none" when it made none); saves counts the
\* successful save_trip calls into an archive that started empty, -1 once
\* another operation or a failed save came between; readOk says whether the
\* file decoded when the latest save_trip or delete_trip read it.
VARIABLES listed, before, wrote, saves, readOk

storageVars == <<file, now, ret, listed, before, wrote, saves, readOk>>

\* The form of the user interface and the validator (ui/app.py,
\* utils/validators.py): bundle is the input handed to
\* validate_complete_trip_input and vout its outcome; flow is the state of
\* the script run handling the "Generate Trip Plan" button.
VARIABLES bundle, vout, flow

\* The geocoder (services/location_service.py), one LocationService shared
\* by its callers: gclock is time.time() in ticks, last_request_time the
\* instance's _last_request_time, gpc each caller's position in search
\* ("idle", "limit" before _respect_rate_limit reads the clock, "sleep" from
\* then until it stamps the time, "request" while requests.get runs), wake
\* the time each caller's sleep ends, call the latest search call, answer what
\* each caller's latest call returned, requests the HTTP requests made, in
\* the order they started.
VARIABLES gclock, last_request_time, gpc, wake, call, answer, requests

geoVars == <<gclock, last_request_time, gpc, wake, call, answer, requests>>

uiVars == <<bundle, vout, flow, geoVars>>

vars == <<plannerVars, storageVars, uiVars>>

(***************************************************************************)
(* The graph state of a run.  initial_state is a local of the call and the *)
(* compiled graph has no checkpointer: every run has a state of its own.   *)
(***************************************************************************)
\* A faulty variant: the messages are kept on the shared agent, one list for all runs.
SharedStateKey(r) == "r1"

StateKey(r) == r

\* add_messages, the reducer of AgentState.messages: the node's messages
\* (all with fresh message ids) are appended.
AddMessages(left, right) == left \o right

\* A faulty variant: the system prompt is never put in front.
AgentMessagesNoPrompt(messages) == messages

\* _agent_node: the system prompt is put in front unless it is there already.
AgentMessages(messages) ==
    IF messages = <<>> \/ messages[1].role # "system"
    THEN <<SystemMessage>> \o messages
    ELSE messages

\* A faulty variant: any AIMessage is routed to the tools node, tool_calls or not.
ToolsConditionAnyAi(messages) ==
    IF Last(messages).role = "ai" THEN "tools" ELSE "end"

\* tools_condition: "tools" when the last message is an AIMessage with
\* tool_calls, END otherwise.
ToolsCondition(messages) ==
    IF Last(messages).role = "ai" /\ Len(Last(messages).calls) > 0
    THEN "tools"
    ELSE "end"

\* A faulty variant: only the first tool call of the message is executed.
ToolNodeFirstCallOnly(messages, r) ==
    <<Msg("tool", "tool_output", <<>>, Last(messages).calls[1], r)>>

\* ToolNode: one ToolMessage per tool call of the last AIMessage, in order,
\* each with that call's id; the content is the tool's text or, when the
\* tool failed, the error description.
ToolNode(messages, r) ==
    [k \in 1..Len(Last(messages).calls) |->
        Msg("tool", "tool_output", <<>>, Last(messages).calls[k], r)]

\* A faulty variant: the filter also skips AIMessage.
StreamEventSkipsAi(messages) ==
    IF Last(messages).role \in {"human", "system", "ai"}
    THEN <<>>
    ELSE <<Last(messages)>>

\* stream_mode="values": one event per super-step, the whole state; the
\* loop of stream_trip_plan yields its last message unless that is a
\* HumanMessage or SystemMessage.
StreamEvent(messages) ==
    IF Last(messages).role \in {"human", "system"}
    THEN <<>>
    ELSE <<Last(messages)>>

\* A faulty variant: the content of the first reply, not of the last message.
FinalContentOfFirstReply(messages) == messages[2].content

\* generate_trip_plan, after app.invoke returned: the last message's content.
FinalContent(messages) == Last(messages).content

\* generate_trip_plan: the status handed to log_api_call when app.invoke
\* returned (line 172) and when it raised (line 179).
StatusOnReturn == "success"
StatusOnRaise == "failed"

(***************************************************************************)
(* Operations                                                              *)
(***************************************************************************)
\* A call of generate_trip_plan(q) or stream_trip_plan(q): the initial state
\* is [HumanMessage(q)]; START -> agent.  With stream_mode="values" the
\* first event is the input, which is skipped (a HumanMessage).
StartCall(r, m, q, lp) ==
    /\ pc[r] \in {"idle", "done"}
    /\ pc' = [pc EXCEPT ![r] = "agent"]
    /\ mode' = [mode EXCEPT ![r] = m]
    /\ looping' = [looping EXCEPT ![r] = lp]
    /\ conv' = [conv EXCEPT ![StateKey(r)] = <<HumanMessage(q, r)>>]
    /\ steps' = [steps EXCEPT ![r] = 0]
    /\ turns' = [turns EXCEPT ![r] = <<>>]
    /\ lastSent' = [lastSent EXCEPT ![r] = <<>>]
    /\ llmFailed' = [llmFailed EXCEPT ![r] = FALSE]
    /\ raised' = [raised EXCEPT ![r] = FALSE]
    /\ yielded' = [yielded EXCEPT ![r] =
                      IF m = "stream" THEN StreamEvent(<<HumanMessage(q, r)>>) ELSE <<>>]
    /\ result' = [result EXCEPT ![r] = ""]
    /\ telemetry' = [telemetry EXCEPT ![r] = <<>>]

\* generate_trip_plan has returned to its caller: the state of the run, a
\* local of the call, is gone.
EndCall(r) ==
    /\ pc[r] = "done"
    /\ pc' = [pc EXCEPT ![r] = "idle"]
    /\ mode' = [mode EXCEPT ![r] = "none"]
    /\ looping' = [looping EXCEPT ![r] = FALSE]
    /\ conv' = [conv EXCEPT ![StateKey(r)] = <<>>]
    /\ steps' = [steps EXCEPT ![r] = 0]
    /\ turns' = [turns EXCEPT ![r] = <<>>]
    /\ lastSent' = [lastSent EXCEPT ![r] = <<>>]
    /\ llmFailed' = [llmFailed EXCEPT ![r] = FALSE]
    /\ raised' = [raised EXCEPT ![r] = FALSE]
    /\ yielded' = [yielded EXCEPT ![r] = <<>>]
    /\ result' = [result EXCEPT ![r] = ""]
    /\ telemetry' = [telemetry EXCEPT ![r] = <<>>]

\* The call made on its own.
Start(r, m, q, lp) ==
    /\ StartCall(r, m, q, lp)
    /\ UNCHANGED <<storageVars, uiVars>>

\* A faulty variant: a graph run with no recursion limit, which goes on for
\* as long as a node is left to run.
AfterStepNoLimit(r, messages, n, next) ==
    /\ pc' = [pc EXCEPT ![r] = IF next = "end" THEN "done" ELSE next]
    /\ raised' = [raised EXCEPT ![r] = FALSE]
    /\ steps' = [steps EXCEPT ![r] = n]
    /\ yielded' = [yielded EXCEPT ![r] =
         IF mode[r] # "stream" THEN @ ELSE @ \o StreamEvent(messages)]
    /\ result' = [result EXCEPT ![r] =
         IF mode[r] # "generate" \/ next # "end" THEN @ ELSE FinalContent(messages)]
    /\ telemetry' = [telemetry EXCEPT ![r] =
         IF mode[r] # "generate" \/ next # "end" THEN @ ELSE Append(@, StatusOnReturn)]

\* What follows a super-step that left the state `messages` after `n`
\* super-steps, `next` being the node to run ("end" when none):
\* the run goes on, ends, or ends with GraphRecursionError.
AfterStep(r, messages, n, next) ==
    LET over == next # "end" /\ n >= RecursionLimit
        ends == next = "end" \/ over
    IN  /\ pc' = [pc EXCEPT ![r] = IF ends THEN "done" ELSE next]
        /\ raised' = [raised EXCEPT ![r] = over]
        /\ steps' = [steps EXCEPT ![r] = n]
        /\ yielded' = [yielded EXCEPT ![r] =
             IF mode[r] # "stream" THEN @
             ELSE @ \o StreamEvent(messages)
                    \o (IF over THEN <<StreamErrorMessage(r)>> ELSE <<>>)]
        /\ result' = [result EXCEPT ![r] =
             IF mode[r] # "generate" \/ ~ends THEN @
             ELSE IF over THEN GenerateErrorText ELSE FinalContent(messages)]
        /\ telemetry' = [telemetry EXCEPT ![r] =
             IF mode[r] # "generate" \/ ~ends THEN @
             ELSE IF over THEN Append(@, StatusOnRaise) ELSE Append(@, StatusOnReturn)]

\* The answers the chat model may give on model turn t.
Answers(r, t) ==
    IF t <= MaxTurns THEN CallCounts
    ELSE IF looping[r] THEN {1} ELSE {0}

\* The agent node, the chat model answering with n tool requests.
AgentTurn(r, n, c) ==
    LET messages == conv[StateKey(r)]
        t == Len(SelectSeq(turns[r], LAMBDA x: x = "agent")) + 1
        new == AddMessages(messages, <<ModelResponse(r, t, n, c)>>)
    IN  /\ pc[r] = "agent"
        /\ n \in Answers(r, t)
        /\ lastSent' = [lastSent EXCEPT ![r] = AgentMessages(messages)]
        /\ conv' = [conv EXCEPT ![StateKey(r)] = new]
        /\ turns' = [turns EXCEPT ![r] = Append(@, "agent")]
        /\ AfterStep(r, new, steps[r] + 1, ToolsCondition(new))
        /\ UNCHANGED <<mode, looping, llmFailed, storageVars, uiVars>>

\* The agent node, llm_with_tools.invoke raising: the except branch returns
\* the error text as an AIMessage.
AgentTurnFails(r) ==
    LET messages == conv[StateKey(r)]
        new == AddMessages(messages, <<AgentErrorMessage(r)>>)
    IN  /\ pc[r] = "agent"
        /\ lastSent' = [lastSent EXCEPT ![r] = AgentMessages(messages)]
        /\ llmFailed' = [llmFailed EXCEPT ![r] = TRUE]
        /\ conv' = [conv EXCEPT ![StateKey(r)] = new]
        /\ turns' = [turns EXCEPT ![r] = Append(@, "agent")]
        /\ AfterStep(r, new, steps[r] + 1, ToolsCondition(new))
        /\ UNCHANGED <<mode, looping, storageVars, uiVars>>

\* The tools node; the edge tools -> agent.
ToolTurn(r) ==
    LET messages == conv[StateKey(r)]
        new == AddMessages(messages, ToolNode(messages, r))
    IN  /\ pc[r] = "tools"
        /\ conv' = [conv EXCEPT ![StateKey(r)] = new]
        /\ turns' = [turns EXCEPT ![r] = Append(@, "tools")]
        /\ AfterStep(r, new, steps[r] + 1, "agent")
        /\ UNCHANGED <<mode, looping, lastSent, llmFailed, storageVars, uiVars>>

RunStep(r) ==
    \/ \E m \in Modes, q \in Queries, lp \in BOOLEAN : Start(r, m, q, lp)
    \/ \E n \in CallCounts, c \in Plans : AgentTurn(r, n, c)
    \/ AgentTurnFails(r)
    \/ ToolTurn(r)


(***************************************************************************)
(* The trip archive (services/storage_service.py)                          *)
(***************************************************************************)
\* The argument bundles save_trip is called with.
TripArgs ==
    { [from_city |-> "Paris", to_city |-> "Rome", days |-> 3, people |-> 2,
       group_type |-> "Couple", trip_plan |-> "planA"],
      [from_city |-> "Delhi", to_city |-> "Goa", days |-> 5, people |-> 1,
       group_type |-> "Solo", trip_plan |-> "planB"] }

RecordKeys ==
    {"id", "timestamp", "from_city", "to_city", "days", "people", "group_type",
     "trip_plan"}

\* None, for an id and for a record.
NoTripId == -1

NoRecord ==
    [id |-> NoTripId, timestamp |-> -1, from_city |-> "", to_city |-> "",
     days |-> 0, people |-> 0, group_type |-> "", trip_plan |-> ""]

\* datetime.now().strftime("%Y%m%d_%H%M%S"): the clock reading cut to its second.
TripId(t) == t \div TicksPerSecond

\* datetime.now().isoformat(): the clock reading at its full grain.
Timestamp(t) == t

\* TripRecord(...).to_dict(): the dict of the eight fields.
ToDict(id, ts, a) ==
    [id |-> id, timestamp |-> ts, from_city |-> a.from_city, to_city |-> a.to_city,
     days |-> a.days, people |-> a.people, group_type |-> a.group_type,
     trip_plan |-> a.trip_plan]

\* TripRecord.from_dict: cls(**data) raises TypeError unless the keys are
\* exactly the eight fields.
FromDictRaises(d) == DOMAIN d # RecordKeys

\* A faulty variant: what can be read of a file that does not decode is
\* returned.
ReadDataKeepsPartial(f) == f.data

\* _read_data: the decoded list, or [] when the file does not decode.
ReadData(f) == IF f.ok THEN f.data ELSE <<>>

\* _write_data(data): open(path, 'w') and json.dump.  "ok": the file holds
\* data.  "open_failed": open raised, the file is as it was.  "dump_failed":
\* open truncated the file and the dump raised before it was complete, the
\* file holds a part of the text of data and no longer decodes.
WriteOutcomes == {"ok", "open_failed", "dump_failed"}

WriteData(f, data, w) ==
    CASE w = "ok" -> [ok |-> TRUE, data |-> data]
      [] w = "open_failed" -> f
      [] w = "dump_failed" -> [ok |-> FALSE, data |-> data]

Written(w) == w = "ok"

\* get_trip: the first record of the list whose id is trip_id.
FirstWithId(data, id) ==
    IF \E i \in 1..Len(data) : data[i].id = id
    THEN LET i == CHOOSE i \in 1..Len(data) :
                     /\ data[i].id = id
                     /\ \A j \in 1..(i - 1) : data[j].id # id
         IN  <<data[i]>>
    ELSE <<>>

Ret(op, id, ok, rec, afterSave, saved) ==
    [op |-> op, id |-> id, ok |-> ok, rec |-> rec, afterSave |-> afterSave,
     saved |-> saved]

NoRet == Ret("none", NoTripId, FALSE, NoRecord, FALSE, NoRecord)

\* get_all_trips: the sort key, x.get('timestamp', ''); the empty string is
\* below every timestamp.
NoTimestamp == -1

SortKey(x) == IF "timestamp" \in DOMAIN x THEN x.timestamp ELSE NoTimestamp

\* The place of x in the sorted list s: behind every record whose key is as
\* large (list.sort is stable, so also with reverse=True records of one key
\* keep their order).
InsertNewestFirst(x, s) ==
    LET n == Len(SelectSeq(s, LAMBDA y : SortKey(y) >= SortKey(x)))
    IN  SubSeq(s, 1, n) \o <<x>> \o SubSeq(s, n + 1, Len(s))

RECURSIVE SortOldestFirst(_)
\* A faulty variant: the sort without reverse=True.
SortOldestFirst(data) ==
    IF data = <<>> THEN <<>>
    ELSE LET s == SortOldestFirst(SubSeq(data, 1, Len(data) - 1))
             x == data[Len(data)]
             n == Len(SelectSeq(s, LAMBDA y : SortKey(y) <= SortKey(x)))
         IN  SubSeq(s, 1, n) \o <<x>> \o SubSeq(s, n + 1, Len(s))

RECURSIVE SortByTimestamp(_)
\* get_all_trips: data.sort(key=..., reverse=True), newest first.
SortByTimestamp(data) ==
    IF data = <<>> THEN <<>>
    ELSE InsertNewestFirst(data[Len(data)],
                           SortByTimestamp(SubSeq(data, 1, Len(data) - 1)))

\* get_all_trips(limit): no limit is None.
NoLimit == -1

Limits == {NoLimit} \cup (0..MaxRecords)

\* get_all_trips: "if limit: data = data[:limit]"; a limit of 0 is falsy.
LimitTo(data, limit) ==
    IF limit = NoLimit \/ limit = 0 THEN data
    ELSE SubSeq(data, 1, IF limit < Len(data) THEN limit ELSE Len(data))

NoListed == [limit |-> NoLimit, out |-> <<>>]

\* Time passes between two operations.
Tick ==
    /\ now < MaxTime
    /\ now' = now + 1
    /\ UNCHANGED <<file, ret, listed, before, wrote, saves, readOk, plannerVars, uiVars>>

\* save_trip(a): the id and the timestamp are two readings of the clock, d
\* ticks apart; the record is appended to what _read_data returns and the
\* whole list is written.  Returns the id, or None when the write failed.
SaveTripCall(a, d, w) ==
    LET id == TripId(now)
        record == ToDict(id, Timestamp(now + d), a)
        data == Append(ReadData(file), record)
    IN  /\ now + d <= MaxTime
        /\ Len(ReadData(file)) < MaxRecords
        /\ now' = now + d
        /\ file' = WriteData(file, data, w)
        /\ ret' = Ret("save", IF Written(w) THEN id ELSE NoTripId, Written(w),
                      record, FALSE, NoRecord)
        /\ listed' = NoListed
        /\ before' = <<>>
        /\ wrote' = w
        /\ saves' = IF saves >= 0 /\ Written(w) THEN saves + 1 ELSE -1
        /\ readOk' = file.ok

\* save_trip called on its own.
SaveTrip(a, d, w) ==
    /\ SaveTripCall(a, d, w)
    /\ UNCHANGED <<plannerVars, uiVars>>

\* get_trip(id): the first record with that id, through from_dict; None
\* when there is none or from_dict raised.  afterSave and saved record
\* (history) that the operation before was a save_trip that returned this
\* id, and the record it stored.
GetTrip(id) ==
    LET found == FirstWithId(ReadData(file), id)
        hit == found # <<>> /\ ~FromDictRaises(found[1])
    IN  /\ ret' = Ret("get", id, hit, IF hit THEN found[1] ELSE NoRecord,
                      ret.op = "save" /\ ret.ok /\ ret.id = id,
                      IF ret.op = "save" /\ ret.ok /\ ret.id = id
                      THEN ret.rec ELSE NoRecord)
        /\ listed' = NoListed
        /\ before' = <<>>
        /\ wrote' = "none"
        /\ UNCHANGED <<file, now, saves, readOk, plannerVars, uiVars>>

\* A faulty variant: only the first record of that id is left out.
WithoutFirstWithId(data, id) ==
    IF \E i \in 1..Len(data) : data[i].id = id
    THEN LET i == CHOOSE i \in 1..Len(data) :
                     /\ data[i].id = id
                     /\ \A j \in 1..(i - 1) : data[j].id # id
         IN  SubSeq(data, 1, i - 1) \o SubSeq(data, i + 1, Len(data))
    ELSE data

\* delete_trip: the records whose id is not trip_id, in their order.
WithoutId(data, id) == SelectSeq(data, LAMBDA x : x.id # id)

\* delete_trip(id): the list without the records of that id is written when
\* it is shorter; True when it was written.
DeleteTrip(id, w) ==
    LET data == ReadData(file)
        kept == WithoutId(data, id)
        shorter == Len(kept) < Len(data)
    IN  /\ file' = IF shorter THEN WriteData(file, kept, w) ELSE file
        /\ ret' = Ret("delete", id, shorter /\ Written(w), NoRecord, FALSE, NoRecord)
        /\ listed' = NoListed
        /\ before' = data
        /\ wrote' = IF shorter THEN w ELSE "none"
        /\ saves' = -1
        /\ readOk' = file.ok
        /\ UNCHANGED <<now, plannerVars, uiVars>>

\* clear_all: the empty list is written.
ClearAll(w) ==
    /\ file' = WriteData(file, <<>>, w)
    /\ ret' = Ret("clear", NoTripId, Written(w), NoRecord, FALSE, NoRecord)
    /\ listed' = NoListed
    /\ before' = <<>>
    /\ wrote' = w
    /\ saves' = IF Written(w) THEN 0 ELSE -1
    /\ readOk' = TRUE
    /\ UNCHANGED <<now, plannerVars, uiVars>>

\* get_all_trips(limit): what _read_data returns, sorted newest first, cut to
\* the limit, each record through from_dict; [] when anything raised.
\* afterSave and saved record (history) that the operation before was a
\* save_trip that returned an id, and the record it stored.
GetAllTrips(limit) ==
    LET data == LimitTo(SortByTimestamp(ReadData(file)), limit)
        fails == \E i \in 1..Len(data) : FromDictRaises(data[i])
        out == IF fails THEN <<>> ELSE data
    IN  /\ ret' = Ret("list", NoTripId, ~fails, NoRecord,
                      ret.op = "save" /\ ret.ok,
                      IF ret.op = "save" /\ ret.ok THEN ret.rec ELSE NoRecord)
        /\ listed' = [limit |-> limit, out |-> out]
        /\ before' = <<>>
        /\ wrote' = "none"
        /\ UNCHANGED <<file, now, saves, readOk, plannerVars, uiVars>>

\* The file is edited by hand, or was written by another version: a stored
\* record loses its timestamp.  What the operations before returned says
\* nothing about the file any more.
DropTimestamp(i) ==
    /\ file.ok
    /\ i \in 1..Len(file.data)
    /\ "timestamp" \in DOMAIN file.data[i]
    /\ file' = [file EXCEPT !.data[i] =
                    [k \in RecordKeys \ {"timestamp"} |-> file.data[i][k]]]
    /\ ret' = NoRet
    /\ listed' = NoListed
    /\ before' = <<>>
    /\ wrote' = "none"
    /\ saves' = -1
    /\ readOk' = TRUE
    /\ UNCHANGED <<now, plannerVars, uiVars>>

TripIds == 0..TripId(MaxTime)

StorageStep ==
    \/ Tick
    \/ \E a \in TripArgs, d \in {0, 1}, w \in WriteOutcomes : SaveTrip(a, d, w)
    \/ \E id \in TripIds : GetTrip(id)
    \/ \E id \in TripIds, w \in WriteOutcomes : DeleteTrip(id, w)
    \/ \E w \in WriteOutcomes : ClearAll(w)
    \/ \E limit \in Limits : GetAllTrips(limit)
    \/ \E i \in 1..MaxRecords : DropTimestamp(i)

\* TripStorage(): the file is created holding the empty list.
StorageInit ==
    /\ file = [ok |-> TRUE, data |-> <<>>]
    /\ now = 0
    /\ ret = NoRet
    /\ listed = NoListed
    /\ before = <<>>
    /\ wrote = "none"
    /\ saves = 0
    /\ readOk = TRUE

(***************************************************************************)
(* Input validation (utils/validators.py)                                  *)
(***************************************************************************)
\* A text is a sequence of runs: the character ch, n times over.
Run(c, n) == [ch |-> c, n |-> n]

Text(chars) == [i \in 1..Len(chars) |-> Run(chars[i], 1)]

RECURSIVE StrLen(_)
\* len(text)
StrLen(s) == IF s = <<>> THEN 0 ELSE s[1].n + StrLen(Tail(s))

\* str.lower, on the capitals the inputs hold.
LowerCase == [A |-> "a", B |-> "b", S |-> "s", T |-> "t"]

LowerChar(c) == IF c \in DOMAIN LowerCase THEN LowerCase[c] ELSE c

Lower(s) == [i \in 1..Len(s) |-> Run(LowerChar(s[i].ch), s[i].n)]

Whitespace == {" ", "\n"}

RECURSIVE StripLeft(_)
StripLeft(s) ==
    IF s # <<>> /\ s[1].ch \in Whitespace THEN StripLeft(Tail(s)) ELSE s

RECURSIVE StripRight(_)
StripRight(s) ==
    IF s # <<>> /\ s[Len(s)].ch \in Whitespace
    THEN StripRight(SubSeq(s, 1, Len(s) - 1)) ELSE s

\* str.strip
Strip(s) == StripRight(StripLeft(s))

\* validate_location: the bounds on the stripped length and the characters
\* of the pattern [<>{}[\]\\].
MinLocationLen == 2
MaxLocationLen == 100
InvalidChars == {"<", ">", "{", "}", "[", "]", "\\"}

\* validate_people_count and validate_days: the bounds.
MinPeople == 1
MaxPeople == 50
MinDays == 1
MaxDays == 365

\* validate_complete_trip_input: max_length of the notes.
NotesMaxLength == 1000

\* A value of people or days: an int, or something that is no int.
IntValue(v) == [isInt |-> TRUE, v |-> v]
NotAnInt == [isInt |-> FALSE, v |-> 0]

\* Each validate_* function raises ValidationError(message) or returns
\* True: the operator is the sequence of the messages raised, none or one.
ValidateLocation(location, field_name) ==
    IF location = <<>> \/ Strip(location) = <<>>
    THEN <<field_name \o " cannot be empty">>
    ELSE LET s == Strip(location)
         IN  IF StrLen(s) < MinLocationLen
             THEN <<field_name \o " must be at least 2 characters">>
             ELSE IF StrLen(s) > MaxLocationLen
             THEN <<field_name \o " name is too long (max 100 characters)">>
             ELSE IF \E i \in 1..Len(s) : s[i].ch \in InvalidChars
             THEN <<field_name \o " contains invalid characters">>
             ELSE <<>>

ValidatePeopleCount(count) ==
    IF ~count.isInt THEN <<"Number of travelers must be a number">>
    ELSE IF count.v < MinPeople THEN <<"At least 1 traveler is required">>
    ELSE IF count.v > MaxPeople THEN <<"Maximum 50 travelers allowed">>
    ELSE <<>>

ValidateDays(days) ==
    IF ~days.isInt THEN <<"Trip duration must be a number">>
    ELSE IF days.v < MinDays THEN <<"Trip must be at least 1 day">>
    ELSE IF days.v > MaxDays THEN <<"Maximum trip duration is 365 days">>
    ELSE <<>>

SameLocationMessage == "Departure and destination cannot be the same"

\* A faulty variant: the texts are compared as they are.
ValidateSameLocationExact(from_loc, to_loc) ==
    IF from_loc = to_loc THEN <<SameLocationMessage>> ELSE <<>>

ValidateSameLocation(from_loc, to_loc) ==
    IF Strip(Lower(from_loc)) = Strip(Lower(to_loc))
    THEN <<SameLocationMessage>> ELSE <<>>

RECURSIVE StripTags(_)
\* re.sub(r'<[^>]+>', '', text): from a "<" up to the first ">" behind it,
\* with at least one character between them.
StripTags(s) ==
    IF s = <<>> THEN <<>>
    ELSE IF /\ s[1].ch = "<"
            /\ \E j \in 3..Len(s) :
                 s[j].ch = ">" /\ \A k \in 2..(j - 1) : s[k].ch # ">"
    THEN LET j == CHOOSE j \in 3..Len(s) :
                      s[j].ch = ">" /\ \A k \in 2..(j - 1) : s[k].ch # ">"
         IN  StripTags(SubSeq(s, j + 1, Len(s)))
    ELSE <<s[1]>> \o StripTags(Tail(s))

OpenScript == <<"<", "s", "c", "r", "i", "p", "t">>
CloseScript == <<"<", "/", "s", "c", "r", "i", "p", "t", ">">>

\* The word w stands at place i of s, capitals or not.
StandsAt(s, i, w) ==
    /\ i + Len(w) - 1 <= Len(s)
    /\ \A k \in 1..Len(w) :
         LowerChar(s[i + k - 1].ch) = w[k] /\ s[i + k - 1].n = 1

RECURSIVE StripScripts(_)
\* re.sub(r'<script.*?</script>', '', text, DOTALL | IGNORECASE): from
\* "<script" up to the first "</script>" behind it.
StripScripts(s) ==
    IF s = <<>> THEN <<>>
    ELSE IF /\ StandsAt(s, 1, OpenScript)
            /\ \E j \in (Len(OpenScript) + 1)..Len(s) : StandsAt(s, j, CloseScript)
    THEN LET j == CHOOSE j \in (Len(OpenScript) + 1)..Len(s) :
                      /\ StandsAt(s, j, CloseScript)
                      /\ \A k \in (Len(OpenScript) + 1)..(j - 1) :
                           ~StandsAt(s, k, CloseScript)
         IN  StripScripts(SubSeq(s, j + Len(CloseScript), Len(s)))
    ELSE <<s[1]>> \o StripScripts(Tail(s))

RECURSIVE Prefix(_, _)
\* text[:k]
Prefix(s, k) ==
    IF s = <<>> \/ k = 0 THEN <<>>
    ELSE IF s[1].n <= k THEN <<s[1]>> \o Prefix(Tail(s), k - s[1].n)
    ELSE <<Run(s[1].ch, k)>>

Ellipsis == <<Run(".", 3)>>

\* sanitize_text_input(text, max_length)
SanitizeTextInput(text, max_length) ==
    IF text = <<>> THEN <<>>
    ELSE LET t == Strip(StripScripts(StripTags(text)))
         IN  IF StrLen(t) > max_length THEN Prefix(t, max_length) \o Ellipsis
             ELSE t

\* dict.get(key, default)
Get(d, key, default) == IF key \in DOMAIN d THEN d[key] ELSE default

\* A faulty variant: the first failing check raises at once.
ValidateFirstFailureOnly(trip_data) ==
    LET from_city == Get(trip_data, "from_city", <<>>)
        to_city == Get(trip_data, "to_city", <<>>)
        errors ==
            ValidateLocation(from_city, "Departure location")
            \o ValidateLocation(to_city, "Destination")
            \o (IF from_city # <<>> /\ to_city # <<>>
                THEN ValidateSameLocation(from_city, to_city) ELSE <<>>)
            \o ValidatePeopleCount(Get(trip_data, "people", IntValue(0)))
            \o ValidateDays(Get(trip_data, "days", IntValue(0)))
    IN  [done |-> TRUE, raised |-> errors # <<>>,
         text |-> IF errors = <<>> THEN <<>> ELSE <<errors[1]>>,
         data |-> trip_data]

\* validate_complete_trip_input(trip_data): raised says that it raised
\* ValidationError, text is the lines of the error's text ("\n".join of the
\* messages), data is the dict after the call, which is the value returned
\* when nothing was raised; the notes are sanitized in place before the
\* errors are looked at.
ValidateCompleteTripInput(trip_data) ==
    LET from_city == Get(trip_data, "from_city", <<>>)
        to_city == Get(trip_data, "to_city", <<>>)
        errors ==
            ValidateLocation(from_city, "Departure location")
            \o ValidateLocation(to_city, "Destination")
            \o (IF from_city # <<>> /\ to_city # <<>>
                THEN ValidateSameLocation(from_city, to_city) ELSE <<>>)
            \o ValidatePeopleCount(Get(trip_data, "people", IntValue(0)))
            \o ValidateDays(Get(trip_data, "days", IntValue(0)))
    IN  [done |-> TRUE, raised |-> errors # <<>>, text |-> errors,
         data |-> IF "notes" \in DOMAIN trip_data
                  THEN [trip_data EXCEPT !["notes"] =
                            SanitizeTextInput(@, NotesMaxLength)]
                  ELSE trip_data]

NoOutcome == [done |-> FALSE, raised |-> FALSE, text |-> <<>>, data |-> <<>>]

\* The inputs of the validator.
Locations ==
    { <<>>, Text(<<" ">>), Text(<<"a">>), Text(<<"a", "b">>),
      Text(<<" ", "A", "b", " ">>), Text(<<"c", "d">>), Text(<<"a", "<">>),
      <<Run("x", MaxLocationLen)>>, <<Run("x", MaxLocationLen + 1)>> }

PeopleValues ==
    {NotAnInt} \cup {IntValue(v) : v \in {MinPeople - 1, MinPeople, MaxPeople, MaxPeople + 1}}

DaysValues ==
    {NotAnInt} \cup {IntValue(v) : v \in {MinDays - 1, MinDays, MaxDays, MaxDays + 1}}

NotesValues ==
    { <<>>, Text(<<" ", "h", "i", " ">>), Text(<<"<", "b", ">", "h", "i">>),
      <<Run("x", NotesMaxLength + 1)>>,
      Text(<<"<", ">", "h", "<", "i">>),
      Text(<<"<", "S", "c", "r", "i", "p", "t", ">", "h", "i",
             "<", "/", "s", "c", "r", "i", "p", "t", ">", "a">>) }

BundleKeys == {"from_city", "to_city", "people", "days", "notes"}

KeySets == {BundleKeys, BundleKeys \ {"notes"}, BundleKeys \ {"from_city", "days"}}

Bundles ==
    { [k \in keys |-> [from_city |-> f, to_city |-> t, people |-> p,
                       days |-> d, notes |-> n][k]] :
        keys \in KeySets, f \in Locations, t \in Locations,
        p \in PeopleValues, d \in DaysValues, n \in NotesValues }

\* A call of validate_complete_trip_input on the bundle.
Validate ==
    /\ ~vout.done
    /\ vout' = ValidateCompleteTripInput(bundle)
    /\ UNCHANGED <<bundle, flow, geoVars, plannerVars, storageVars>>

NoBundle == <<>>

(***************************************************************************)
(* The "Plan Trip" form (ui/app.py)                                        *)
(***************************************************************************)
\* The script runs top to bottom on every interaction.  A run in which the
\* "Generate My Trip Plan" button was pressed is a submission: it first
\* searches the locations typed into the two text inputs, then handles the
\* button.
\* flow: stage is where the submission stands ("idle" before the first one,
\* "unselected", "invalid", "planning", "shown"); geo is the number of HTTP
\* requests the run's location searches issued; calls the number of
\* generate_trip_plan calls it made; surfaced the lines shown by st.error;
\* response what generate_trip_plan returned and failed whether the run had
\* ended in a failure (the model call or the graph raised); saveCalled
\* whether the submission called save_trip.
NoFlow ==
    [stage |-> "idle", save_history |-> FALSE, geo |-> 0, calls |-> 0,
     surfaced |-> <<>>, response |-> "", failed |-> FALSE, saveCalled |-> FALSE]

\* The text inputs are searched when they hold at least two characters.
MinSearchLen == 2

\* LocationService.search(query) issues its HTTP request unless the query is
\* empty or blank.
SearchIssuesRequest(query) == query # <<>> /\ Strip(query) # <<>>

\* What is typed into the two text inputs.
FromTyped == {<<>>, Text(<<" ", " ">>), Text(<<"a", "b">>)}

ToTyped == {<<>>, Text(<<"a", "b">>), Text(<<"c", "d">>)}

\* No selection is None.
NoSelection == <<>>

\* What can be selected after the search of a text input: nothing when the
\* search found nothing, else the label (display_name) of a place found,
\* here the query itself or a name of more than 100 characters.
LabelsOf(query) ==
    IF StrLen(query) >= MinSearchLen /\ SearchIssuesRequest(query)
    THEN {NoSelection, query, <<Run("x", MaxLocationLen + 1)>>}
    ELSE {NoSelection}

\* The fields the form leaves at their values: people, days, group_type.
FormPeople == IntValue(2)
FormDays == IntValue(3)
FormGroupType == "Couple"

FormNotes == {Text(<<"<", "b", ">", "h", "i">>)}

UnselectedMessage == "Please select both departure and destination locations"

\* The prompt: the f-string of the form's values, special_notes as typed.
Prompt(trip_data, special_notes) ==
    [from_city |-> trip_data.from_city, to_city |-> trip_data.to_city,
     days |-> trip_data.days.v, people |-> trip_data.people.v,
     group_type |-> FormGroupType, notes |-> special_notes]

\* The handler after validate_complete_trip_input: the ValidationError leaves
\* the try block for "except ValidationError".
AfterValidation(v) == IF v.raised THEN "invalid" ELSE "planning"

\* A submission: from_input and to_input are typed, the searches offer
\* labels of which from_sel and to_sel are selected (NoSelection when a
\* search found nothing), then the button is handled up to the call of
\* generate_trip_plan.
Submit(from_input, to_input, from_sel, to_sel, special_notes, save_history, lp) ==
    LET from_searched == from_input # <<>> /\ StrLen(from_input) >= MinSearchLen
        to_searched == to_input # <<>> /\ StrLen(to_input) >= MinSearchLen
        from_req == from_searched /\ SearchIssuesRequest(from_input)
        to_req == to_searched /\ SearchIssuesRequest(to_input)
        from_selected == IF from_req THEN from_sel ELSE NoSelection
        to_selected == IF to_req THEN to_sel ELSE NoSelection
        geo == (IF from_req THEN 1 ELSE 0) + (IF to_req THEN 1 ELSE 0)
        trip_data == [from_city |-> from_selected, to_city |-> to_selected,
                      people |-> FormPeople, days |-> FormDays,
                      notes |-> special_notes]
        v == ValidateCompleteTripInput(trip_data)
        unselected == from_selected = NoSelection \/ to_selected = NoSelection
        stage == IF unselected THEN "unselected" ELSE AfterValidation(v)
    IN  /\ flow.stage # "planning"
        /\ bundle' = IF unselected THEN NoBundle ELSE trip_data
        /\ vout' = IF unselected THEN NoOutcome ELSE v
        /\ flow' = [stage |-> stage,
                    save_history |-> save_history /\ stage = "planning",
                    geo |-> geo,
                    calls |-> IF stage = "planning" THEN 1 ELSE 0,
                    surfaced |-> IF unselected THEN <<UnselectedMessage>>
                                 ELSE IF v.raised THEN <<"Validation Error:">> \o v.text
                                 ELSE <<>>,
                    response |-> "", failed |-> FALSE, saveCalled |-> FALSE]
        /\ IF stage = "planning"
           THEN StartCall("r1", "generate", Prompt(trip_data, special_notes), lp)
           ELSE UNCHANGED plannerVars
        /\ UNCHANGED <<storageVars, geoVars>>

\* generate_trip_plan returned: the response is shown and, when "Save trip
\* history" is ticked, saved.
Finish(w) ==
    /\ flow.stage = "planning" /\ pc["r1"] = "done"
    /\ IF flow.save_history
       THEN SaveTripCall([from_city |-> bundle.from_city, to_city |-> bundle.to_city,
                          days |-> bundle.days.v, people |-> bundle.people.v,
                          group_type |-> FormGroupType,
                          trip_plan |-> result["r1"]], 0, w)
       ELSE w = "ok" /\ UNCHANGED storageVars
    /\ flow' = [flow EXCEPT !.stage = "shown", !.response = result["r1"],
                             !.failed = llmFailed["r1"] \/ raised["r1"],
                             !.saveCalled = flow.save_history]
    /\ EndCall("r1")
    /\ UNCHANGED <<bundle, vout, geoVars>>

\* The "Clear All History" button of the history tab, between submissions.
ClearHistory(w) ==
    /\ flow.stage # "planning"
    /\ ClearAll(w)

FlowStep ==
    \/ \E from_input \in FromTyped, to_input \in ToTyped :
          \E from_sel \in LabelsOf(from_input), to_sel \in LabelsOf(to_input),
             special_notes \in FormNotes, save_history \in BOOLEAN, lp \in BOOLEAN :
             Submit(from_input, to_input, from_sel, to_sel, special_notes,
                    save_history, lp)
    \/ \E n \in CallCounts, c \in Plans : AgentTurn("r1", n, c)
    \/ AgentTurnFails("r1")
    \/ ToolTurn("r1")
    \/ \E w \in WriteOutcomes : Finish(w)
    \/ \E w \in WriteOutcomes : ClearHistory(w)

(***************************************************************************)
(* The geocoder: LocationService.search and _respect_rate_limit.            *)
(***************************************************************************)
Callers == {"t1", "t2"}

\* settings.location.rate_limit_delay, in seconds and in ticks.
RateLimitDelay == 1

DelayTicks == RateLimitDelay * TicksPerSecond

\* The last tick of the clock, the most search calls made and the most
\* records one response holds.
MaxGeoTime == 7
MaxSearches == 3
MaxFound == 1

GeoQueries == { <<>>, Text(<<" ">>), Text(<<"a", "b">>) }

\* search, lines 97-99: "not query or not query.strip()".
\* A faulty variant: only the empty string counts as no query.
IsBlankEmptyOnly(q) == q = <<>>

IsBlank(q) == q = <<>> \/ Strip(q) = <<>>

\* _respect_rate_limit, lines 82-84: the time at which the caller goes on,
\* having read the clock at `t` and the last request time `last`.
\* A faulty variant: the caller never sleeps.
WakeTimeNoSleep(t, last) == t

WakeTime(t, last) ==
    LET elapsed == t - last
    IN  IF elapsed < DelayTicks THEN t + (DelayTicks - elapsed) ELSE t

\* How an HTTP request may end, and the exception each failure raises inside
\* the try block of search.
Outcomes == {"ok", "timeout", "http_error", "transport", "bad_json", "bad_record"}

ExceptionOf(o) ==
    CASE o = "timeout" -> "Timeout"
      [] o = "http_error" -> "HTTPError"
      [] o = "transport" -> "ConnectionError"
      [] o = "bad_json" -> "JSONDecodeError"
      [] o = "bad_record" -> "ValueError"

IsTimeout(e) == e = "Timeout"

IsRequestException(e) == e \in {"Timeout", "HTTPError", "ConnectionError"}

Returned(o, out) == [outcome |-> o, raised |-> FALSE, out |-> out]

Raised(o) == [outcome |-> o, raised |-> TRUE, out |-> <<>>]

NoFound == [outcome |-> "pending", raised |-> FALSE, out |-> <<>>]

\* The records of a response, n of them, turned into Location objects.
Locs(n) == [i \in 1..n |-> "Location"]

\* A faulty variant: search without its last handler, "except Exception".
SearchReturnRequestErrorsOnly(o, n) ==
    IF o = "ok" THEN Returned(o, Locs(n))
    ELSE IF IsTimeout(ExceptionOf(o)) THEN Returned(o, <<>>)
    ELSE IF IsRequestException(ExceptionOf(o)) THEN Returned(o, <<>>)
    ELSE Raised(o)

\* search, lines 101-142: what the call returns when its request ended with
\* outcome o, the response holding n records.
SearchReturn(o, n) ==
    IF o = "ok" THEN Returned(o, Locs(n))
    ELSE IF IsTimeout(ExceptionOf(o)) THEN Returned(o, <<>>)
    ELSE IF IsRequestException(ExceptionOf(o)) THEN Returned(o, <<>>)
    ELSE Returned(o, <<>>)

NoEnd == -1

\* search is called: a blank query returns at once, any other goes on to
\* _respect_rate_limit.
Search(t, q) ==
    /\ gpc[t] = "idle" /\ call.n < MaxSearches
    /\ call' = [n |-> call.n + 1, caller |-> t, query |-> q]
    /\ IF IsBlank(q)
       THEN /\ answer' = [answer EXCEPT ![t] = Returned("none", <<>>)]
            /\ UNCHANGED gpc
       ELSE /\ answer' = [answer EXCEPT ![t] = NoFound]
            /\ gpc' = [gpc EXCEPT ![t] = "limit"]
    /\ UNCHANGED <<gclock, last_request_time, wake, requests,
                   bundle, vout, flow, plannerVars, storageVars>>

\* _respect_rate_limit reads the clock and the last request time, and sleeps
\* when too little time has elapsed.
RateLimitCheck(t) ==
    /\ gpc[t] = "limit"
    /\ wake' = [wake EXCEPT ![t] = WakeTime(gclock, last_request_time)]
    /\ gpc' = [gpc EXCEPT ![t] = "sleep"]
    /\ UNCHANGED <<gclock, last_request_time, call, answer, requests,
                   bundle, vout, flow, plannerVars, storageVars>>

\* The sleep being over, _respect_rate_limit stamps the time and search
\* calls requests.get.
SendRequest(t) ==
    /\ gpc[t] = "sleep" /\ gclock >= wake[t]
    /\ last_request_time' = gclock
    /\ requests' = Append(requests, [caller |-> t, start |-> gclock, end |-> NoEnd])
    /\ wake' = [wake EXCEPT ![t] = 0]
    /\ gpc' = [gpc EXCEPT ![t] = "request"]
    /\ UNCHANGED <<gclock, call, answer,
                   bundle, vout, flow, plannerVars, storageVars>>

\* requests.get returns or raises, and search returns.
Receive(t, o, n) ==
    /\ gpc[t] = "request"
    /\ answer' = [answer EXCEPT ![t] = SearchReturn(o, n)]
    /\ requests' = [i \in 1..Len(requests) |->
                      IF requests[i].caller = t /\ requests[i].end = NoEnd
                      THEN [requests[i] EXCEPT !.end = gclock] ELSE requests[i]]
    /\ gpc' = [gpc EXCEPT ![t] = "idle"]
    /\ UNCHANGED <<gclock, last_request_time, wake, call,
                   bundle, vout, flow, plannerVars, storageVars>>

\* Time passes.
GeoTick ==
    /\ gclock < MaxGeoTime
    /\ gclock' = gclock + 1
    /\ UNCHANGED <<last_request_time, gpc, wake, call, answer, requests,
                   bundle, vout, flow, plannerVars, storageVars>>

GeoStep(t) ==
    \/ \E q \in GeoQueries : Search(t, q)
    \/ RateLimitCheck(t)
    \/ SendRequest(t)
    \/ \E o \in Outcomes, n \in 0..MaxFound : Receive(t, o, n)

\* LocationService.__init__; time.time() is far more than rate_limit_delay
\* past 0, and the clock starts at the least such value.
GeoInit ==
    /\ gclock = DelayTicks
    /\ last_request_time = 0
    /\ gpc = [t \in Callers |-> "idle"]
    /\ wake = [t \in Callers |-> 0]
    /\ call = [n |-> 0, caller |-> "t1", query |-> <<>>]
    /\ answer = [t \in Callers |-> NoFound]
    /\ requests = <<>>

UiInit ==
    /\ bundle = NoBundle
    /\ vout = NoOutcome
    /\ flow = NoFlow
    /\ GeoInit

PlannerInit ==
    /\ pc = [r \in Runs |-> "idle"]
    /\ mode = [r \in Runs |-> "none"]
    /\ looping = [r \in Runs |-> FALSE]
    /\ conv = [r \in Runs |-> <<>>]
    /\ steps = [r \in Runs |-> 0]
    /\ turns = [r \in Runs |-> <<>>]
    /\ lastSent = [r \in Runs |-> <<>>]
    /\ llmFailed = [r \in Runs |-> FALSE]
    /\ raised = [r \in Runs |-> FALSE]
    /\ yielded = [r \in Runs |-> <<>>]
    /\ result = [r \in Runs |-> ""]
    /\ telemetry = [r \in Runs |-> <<>>]

\* One caller: the runs of run "r1", one after the other.
Init == PlannerInit /\ StorageInit /\ UiInit

Next == RunStep("r1")

Spec == Init /\ [][Next]_vars

\* Two callers share the agent: the runs interleave super-step by super-step.
\* Each run's model answers within MaxTurns + 1 model turns.
ConcStep(r) ==
    \/ \E m \in Modes, q \in Queries : Start(r, m, q, FALSE)
    \/ \E n \in CallCounts, c \in Plans : AgentTurn(r, n, c)
    \/ AgentTurnFails(r)
    \/ ToolTurn(r)

NextConc == \E r \in Runs : ConcStep(r)

\* The archive alone, one caller.
NextStorage == StorageStep

SpecStorage == Init /\ [][NextStorage]_vars

SpecConc == Init /\ [][NextConc]_vars

\* The validator alone, on every bundle of Bundles.
ValidateInit ==
    /\ PlannerInit /\ StorageInit
    /\ bundle \in Bundles
    /\ vout = NoOutcome
    /\ flow = NoFlow
    /\ GeoInit

NextValidate == Validate

SpecValidate == ValidateInit /\ [][NextValidate]_vars

\* The form: submissions of one session, one after the other.
NextFlow == FlowStep

SpecFlow == Init /\ [][NextFlow]_vars

\* The geocoder called by one caller, one search after the other.
NextGeo == GeoStep("t1") \/ GeoTick

SpecGeo == Init /\ [][NextGeo]_vars

\* The geocoder shared by two callers, their searches interleaved.
NextGeoConc == (\E t \in Callers : GeoStep(t)) \/ GeoTick

SpecGeoConc == Init /\ [][NextGeoConc]_vars

(***************************************************************************)
(* Helpers of the claims                                                   *)
(***************************************************************************)
Conv(r) == conv[StateKey(r)]

IsFinal(m) == m.role = "ai" /\ m.calls = <<>>

IsRequest(m) == m.role = "ai" /\ m.calls # <<>>

Count(s, Test(_)) == Len(SelectSeq(s, Test))

IsAi(m) == m.role = "ai"

IsTool(m) == m.role = "tool"

IsSystem(m) == m.role = "system"

IsAgentTurn(x) == x = "agent"

Produced(m) == m.role \in {"ai", "tool"}

\* The run has not met a fault: the chat model has not raised and no
\* exception has left the graph.
FaultFree(r) == ~llmFailed[r] /\ ~raised[r]

(***************************************************************************)
(* C1: in a run without a fault, generate_trip_plan returns exactly the    *)
(* content of the first assistant message with zero tool requests, and not *)
(* before it: while the call has not returned the conversation holds no    *)
(* such message, and when it has, that message is the last one, and every  *)
(* assistant message before it carried a tool request and was followed by  *)
(* a tool turn (a tool-result message).                                    *)
(***************************************************************************)
C1_ReturnsFirstFinalContent ==
    \A r \in Runs :
        (mode[r] = "generate" /\ FaultFree(r)) =>
            LET s == Conv(r) IN
            /\ pc[r] # "done" =>
                  /\ result[r] = ""
                  /\ \A i \in 1..Len(s) : ~IsFinal(s[i])
            /\ pc[r] = "done" =>
                  /\ IsFinal(Last(s))
                  /\ result[r] = Last(s).content
                  /\ \A j \in 1..(Len(s) - 1) :
                        IsAi(s[j]) => IsRequest(s[j]) /\ IsTool(s[j + 1])

C1_Witness ==
    /\ mode["r1"] = "generate" /\ pc["r1"] = "done" /\ FaultFree("r1")
    /\ Len(turns["r1"]) >= 5
    /\ result["r1"] = "planB"

(***************************************************************************)
(* C2: the loop alternates.  A tool turn is about to run only when the     *)
(* last message is an assistant message with a tool request; the node      *)
(* executed before a tool turn is the agent and the node executed before a *)
(* later model turn is the tools node; after a tool turn the run has not   *)
(* ended, the agent is next.  As claimed, the run ends only after an       *)
(* assistant message without tool requests (C2_EndsOnlyAfterFinal); as     *)
(* amended, it also ends, with GraphRecursionError, after the              *)
(* RecursionLimit-th super-step when that left a tool request pending.     *)
(***************************************************************************)
C2_Alternates(r) ==
    /\ pc[r] = "tools" => IsRequest(Last(Conv(r)))
    /\ \A i \in 1..Len(turns[r]) :
          /\ turns[r][i] = "tools" => i > 1 /\ turns[r][i - 1] = "agent"
          /\ (turns[r][i] = "agent" /\ i > 1) => turns[r][i - 1] = "tools"
    /\ (turns[r] # <<>> /\ Last(turns[r]) = "tools") => pc[r] = "agent"

C2_EndsOnlyAfterFinal ==
    \A r \in Runs :
        /\ C2_Alternates(r)
        /\ pc[r] = "done" => IsFinal(Last(Conv(r)))

C2_EndsAfterFinalOrAtLimit ==
    \A r \in Runs :
        /\ C2_Alternates(r)
        /\ pc[r] = "done" =>
              \/ ~raised[r] /\ IsFinal(Last(Conv(r)))
              \/ /\ raised[r]
                 /\ steps[r] = RecursionLimit
                 /\ IsRequest(Last(Conv(r)))
                 /\ Last(turns[r]) = "agent"

C2_Witness ==
    /\ pc["r1"] = "done" /\ raised["r1"]
    /\ Len(turns["r1"]) = RecursionLimit

(***************************************************************************)
(* C3: when a model turn after the first is about to start, every tool     *)
(* call of the preceding assistant message has exactly one tool-result     *)
(* message with its identifier, placed after that assistant message, and   *)
(* every tool-result message answers a call requested before it.           *)
(***************************************************************************)
LastAiIndex(s) ==
    CHOOSE i \in 1..Len(s) : IsAi(s[i]) /\ \A j \in (i + 1)..Len(s) : ~IsAi(s[j])

C3_ToolResultsMatchCalls ==
    \A r \in Runs :
        (pc[r] = "agent" /\ steps[r] > 0) =>
            LET s == Conv(r)
                a == LastAiIndex(s)
            IN  /\ \A k \in 1..Len(s[a].calls) :
                      /\ Cardinality({j \in 1..Len(s) :
                            IsTool(s[j]) /\ s[j].id = s[a].calls[k]}) = 1
                      /\ \E j \in (a + 1)..Len(s) :
                            IsTool(s[j]) /\ s[j].id = s[a].calls[k]
                /\ \A j \in 1..Len(s) :
                      IsTool(s[j]) =>
                         \E i \in 1..(j - 1), k \in 1..MaxCalls + 1 :
                            /\ IsAi(s[i]) /\ k <= Len(s[i].calls)
                            /\ s[i].calls[k] = s[j].id

C3_Witness ==
    /\ pc["r1"] = "agent" /\ steps["r1"] = 4
    /\ \E i \in 1..Len(Conv("r1")) : Len(Conv("r1")[i].calls) = MaxCalls

(***************************************************************************)
(* C4: when the chat model raises on a model turn, first or later, no      *)
(* exception leaves the graph; the conversation ends with the error        *)
(* message, an assistant message without tool requests; that model turn is *)
(* the last node executed and the run is over; generate_trip_plan returns  *)
(* the error text, which is not empty.                                     *)
(***************************************************************************)
C4_ModelFailureIsFinalMessage ==
    \A r \in Runs :
        llmFailed[r] =>
            /\ ~raised[r]
            /\ pc[r] = "done"
            /\ Last(turns[r]) = "agent"
            /\ IsFinal(Last(Conv(r)))
            /\ Last(Conv(r)).content = AgentErrorText
            /\ Count(Conv(r), IsAi) = Count(turns[r], IsAgentTurn)
            /\ mode[r] = "generate" =>
                  result[r] = Last(Conv(r)).content /\ result[r] # ""

C4_Witness ==
    /\ llmFailed["r1"] /\ mode["r1"] = "generate"
    /\ Len(turns["r1"]) = 3
    /\ result["r1"] = AgentErrorText

(***************************************************************************)
(* C5: in a run without a fault, what stream_trip_plan has yielded is the  *)
(* sequence of the assistant and tool-result messages appended to the      *)
(* conversation so far, in order, each once.                               *)
(***************************************************************************)
C5_StreamYieldsEveryMessage ==
    \A r \in Runs :
        (mode[r] = "stream" /\ FaultFree(r)) =>
            yielded[r] = SelectSeq(Conv(r), Produced)

(***************************************************************************)
(* C6: stream_trip_plan ends with an assistant message without tool        *)
(* requests.  After a fault that message is the one synthetic error        *)
(* message, yielded once and last: the agent node's when the chat model    *)
(* raised, the generator's when an exception left app.stream.  The         *)
(* sequence is finite: at most one message per super-step and the error.   *)
(***************************************************************************)
IsStreamError(m) == m.content = "Error: GraphRecursionError"

IsAgentError(m) == m.content = AgentErrorText

C6_StreamEndsWithFinalMessage ==
    \A r \in Runs :
        mode[r] = "stream" =>
            /\ Len(yielded[r]) <= RecursionLimit + 1
            /\ pc[r] = "done" =>
                  /\ yielded[r] # <<>>
                  /\ IsFinal(Last(yielded[r]))
            /\ raised[r] <=> Count(yielded[r], IsStreamError) > 0
            /\ raised[r] =>
                  /\ pc[r] = "done"
                  /\ IsStreamError(Last(yielded[r]))
                  /\ Count(yielded[r], IsStreamError) = 1
            /\ llmFailed[r] =>
                  /\ pc[r] = "done"
                  /\ IsAgentError(Last(yielded[r]))
                  /\ Count(yielded[r], IsAgentError) = 1
                  /\ Count(yielded[r], IsStreamError) = 0

C6_Witness ==
    /\ mode["r1"] = "stream" /\ raised["r1"] /\ pc["r1"] = "done"
    /\ Len(yielded["r1"]) > 2

(***************************************************************************)
(* C7: a call of generate_trip_plan that has returned has reported to      *)
(* telemetry exactly once, "failed" when the run ended in a failure (an    *)
(* exception out of the graph, or a chat-model failure turned into the     *)
(* error message) and "success" otherwise.                                 *)
(***************************************************************************)
C7_TelemetryMatchesOutcome ==
    \A r \in Runs :
        (mode[r] = "generate" /\ pc[r] = "done") =>
            /\ Len(telemetry[r]) = 1
            /\ telemetry[r][1] =
                  IF raised[r] \/ llmFailed[r] THEN "failed" ELSE "success"

(***************************************************************************)
(* C8: the message list of every model invocation starts with the system   *)
(* instruction, holds no other system message, and continues with the      *)
(* whole conversation as it was before that model turn, in order (the      *)
(* turn's answer is the message right after that prefix).                  *)
(***************************************************************************)
C8_SystemPromptFirstAndOnce ==
    \A r \in Runs :
        lastSent[r] # <<>> =>
            LET n == Len(lastSent[r]) IN
            /\ lastSent[r][1] = SystemMessage
            /\ Count(lastSent[r], IsSystem) = 1
            /\ n - 1 < Len(Conv(r))
            /\ Tail(lastSent[r]) = SubSeq(Conv(r), 1, n - 1)
            /\ Conv(r)[1].role = "human"
            /\ IsAi(Conv(r)[n])
            /\ \A j \in (n + 1)..Len(Conv(r)) : IsTool(Conv(r)[j])

C8_Witness ==
    /\ Len(lastSent["r1"]) >= 5
    /\ \E j \in 1..Len(lastSent["r1"]) : IsTool(lastSent["r1"][j])

(***************************************************************************)
(* C9: with two runs interleaved on one agent, a run's conversation holds  *)
(* its own user query first and then only messages made for it, one        *)
(* assistant message per model turn of its own; what is sent to the model  *)
(* for it and what it yields are its own messages; and its result is the   *)
(* content of its own last message, as when it runs alone.                 *)
(***************************************************************************)
Own(r, s) == \A i \in 1..Len(s) : s[i].run \in {r, "shared"}

C9_RunsAreIsolated ==
    \A r \in Runs :
        pc[r] # "idle" =>
            /\ Conv(r) # <<>>
            /\ Conv(r)[1].role = "human"
            /\ Own(r, Conv(r))
            /\ Own(r, lastSent[r])
            /\ Own(r, yielded[r])
            /\ Count(Conv(r), IsAi) = Count(turns[r], IsAgentTurn)
            /\ lastSent[r] # <<>> => Tail(lastSent[r]) = SubSeq(Conv(r), 1, Len(lastSent[r]) - 1)
            /\ (mode[r] = "generate" /\ pc[r] = "done" /\ ~raised[r]) =>
                  /\ result[r] = Last(Conv(r)).content
                  /\ Last(Conv(r)).run = r

C9_Witness ==
    /\ pc["r1"] = "tools" /\ pc["r2"] = "agent"
    /\ Len(turns["r1"]) = 3 /\ Len(turns["r2"]) = 2
    /\ Conv("r1")[1].content # Conv("r2")[1].content

(***************************************************************************)
(* C10: a get_trip(id) made right after the save_trip that returned id     *)
(* finds a record, and its id, from_city, to_city, days, people,           *)
(* group_type and trip_plan are those the save_trip stored.                *)
(***************************************************************************)
SameTrip(x, y) ==
    /\ x.id = y.id /\ x.from_city = y.from_city /\ x.to_city = y.to_city
    /\ x.days = y.days /\ x.people = y.people
    /\ x.group_type = y.group_type /\ x.trip_plan = y.trip_plan

C10_SaveThenGetRoundTrip ==
    (ret.op = "get" /\ ret.afterSave) => ret.ok /\ SameTrip(ret.rec, ret.saved)

\* The stored records, as _read_data returns them.
Stored == ReadData(file)

NewestFirst(s) ==
    \A i \in 1..(Len(s) - 1) : SortKey(s[i]) >= SortKey(s[i + 1])

\* s holds the records of t, each as often as t does.
SameRecords(s, t) ==
    /\ Len(s) = Len(t)
    /\ \A x \in {s[i] : i \in 1..Len(s)} \cup {t[i] : i \in 1..Len(t)} :
         Len(SelectSeq(s, LAMBDA y : y = x)) = Len(SelectSeq(t, LAMBDA y : y = x))

\* C11: after any sequence of save_trip, delete_trip and clear_all calls,
\* with the saves at any times, the ids of the stored records are pairwise
\* distinct.
C11_IdsAreDistinct ==
    \A i, j \in 1..Len(Stored) : i # j => Stored[i].id # Stored[j].id

\* C12: save_trip, delete_trip and clear_all replace the file atomically: in
\* every state the file decodes to a list, and a step changes the file only
\* when its operation reports success, so that after a failed write a read
\* still returns every record stored before.
C12_RewriteIsAtomic ==
    [][ret'.op \in {"save", "delete", "clear"} =>
          (file'.ok /\ (file' # file => ret'.ok))]_vars

\* C13: after N successful save_trip calls into an archive that started
\* empty, with no delete or clear, get_all_trips() returns exactly N records,
\* the stored ones, one per save, newest first.
C13_ListsEverySaveNewestFirst ==
    (ret.op = "list" /\ listed.limit = NoLimit /\ saves >= 0) =>
        /\ Len(listed.out) = saves
        /\ SameRecords(listed.out, Stored)
        /\ NewestFirst(listed.out)

C13_Witness ==
    /\ ret.op = "list" /\ listed.limit = NoLimit /\ saves = 2
    /\ Stored[1].timestamp < Stored[2].timestamp
    /\ listed.out = <<Stored[2], Stored[1]>>

\* C14: for every limit L that is given, L = 0 included, get_all_trips(L)
\* returns exactly the first min(L, total) records of the newest-first
\* order; without a limit it returns them all.
C14_LimitCutsTheList ==
    ret.op = "list" =>
        LET all == SortByTimestamp(Stored)
            L == listed.limit
        IN  listed.out = IF L = NoLimit THEN all
                         ELSE SubSeq(all, 1, IF L < Len(all) THEN L ELSE Len(all))

C16_UndecodableFileReadsEmpty ==
    ~file.ok =>
        /\ ret.op = "list" => listed.out = <<>>
        /\ ret.op = "get" => (~ret.ok /\ ret.rec = NoRecord)

C16_Witness ==
    /\ ~file.ok /\ file.data # <<>>
    /\ ret.op = "list" /\ listed.out = <<>>

\* The bundle has both cities, and they are equal once trimmed and
\* lower-cased.
SameCities ==
    /\ {"from_city", "to_city"} \subseteq DOMAIN bundle
    /\ Strip(Lower(bundle.from_city)) = Strip(Lower(bundle.to_city))

Lines(text) == {text[i] : i \in 1..Len(text)}

FailingChecks(d, sameCheck) ==
    LET from_city == Get(d, "from_city", <<>>)
        to_city == Get(d, "to_city", <<>>)
    IN  ValidateLocation(from_city, "Departure location")
        \o ValidateLocation(to_city, "Destination")
        \o (IF sameCheck THEN ValidateSameLocation(from_city, to_city) ELSE <<>>)
        \o ValidatePeopleCount(Get(d, "people", IntValue(0)))
        \o ValidateDays(Get(d, "days", IntValue(0)))

\* The outcome is that of the failing checks `failing`: an error whose text
\* is their messages, one per line, or, when there is none, the bundle with
\* its keys and values, the notes sanitized.
OutcomeOf(failing) ==
    /\ vout.raised <=> failing # <<>>
    /\ vout.raised => vout.text = failing
    /\ ~vout.raised =>
         /\ DOMAIN vout.data = DOMAIN bundle
         /\ \A k \in DOMAIN bundle \ {"notes"} : vout.data[k] = bundle[k]
         /\ "notes" \in DOMAIN bundle =>
              vout.data.notes = SanitizeTextInput(bundle.notes, NotesMaxLength)

EndsFailedRun ==
    flow.stage = "planning" /\ flow'.stage = "shown" /\ flow'.failed

\* The step belongs to a submission (it is not a press of "Clear All
\* History").
SubmissionStep == flow' # flow \/ pc' # pc

\* C17: a record is added only after a successful planning run: when
\* generate_trip_plan ended in a failure and returned its error text the
\* submission does not call save_trip and the archive is as it was; and a
\* stored record stays as it is until delete_trip or clear_all removes it.
C17_SavedOnlyAfterSuccess ==
    [][ /\ EndsFailedRun => (~flow'.saveCalled /\ file' = file)
        /\ SubmissionStep =>
             /\ Len(Stored') >= Len(Stored)
             /\ SubSeq(Stored', 1, Len(Stored)) = Stored ]_vars

\* C20: for every submission whose validation fails, the failure is shown
\* with all the messages collected, and neither a geocoding request nor a
\* chat-model call was issued for it, nor is one issued afterwards before a
\* new submission.
C20_InvalidSubmissionIssuesNoRequest ==
    flow.stage = "invalid" =>
        /\ flow.surfaced = <<"Validation Error:">> \o FailingChecks(bundle, TRUE)
        /\ flow.geo = 0
        /\ flow.calls = 0
        /\ pc["r1"] = "idle"

HasTimestamp(x) == "timestamp" \in DOMAIN x

\* C27: when a stored record has no timestamp, get_all_trips still returns
\* all the stored records, those with a timestamp newest first and those
\* without one behind them.
C27_MissingTimestampListedLast ==
    (ret.op = "list" /\ listed.limit = NoLimit /\ file.ok
       /\ \E i \in 1..Len(Stored) : ~HasTimestamp(Stored[i])) =>
        /\ SameRecords(listed.out, Stored)
        /\ NewestFirst(listed.out)
        /\ \A i, j \in 1..Len(listed.out) :
             (~HasTimestamp(listed.out[i]) /\ HasTimestamp(listed.out[j])) => j < i

\* C30: a save_trip made while the file does not decode returns the id of
\* its record and leaves the file holding that record alone, and a
\* get_all_trips right after it returns exactly that record.
C30_SaveOnUndecodableFileStartsAfresh ==
    /\ (ret.op = "save" /\ ret.ok /\ ~readOk) =>
          /\ ret.id = ret.rec.id
          /\ file.ok
          /\ Stored = <<ret.rec>>
    /\ (ret.op = "list" /\ ret.afterSave /\ ~readOk) =>
          listed.out = <<ret.saved>>

C30_Witness ==
    /\ ret.op = "list" /\ ret.afterSave /\ ~readOk
    /\ listed.out = <<ret.saved>>
    /\ file.ok /\ Len(Stored) = 1

\* The text holds an HTML tag: a "<", at least one character that is no ">",
\* and a ">".
HoldsTag(s) ==
    \E i \in 1..Len(s), j \in 1..Len(s) :
        /\ j >= i + 2
        /\ s[i].ch = "<" /\ s[j].ch = ">"
        /\ \A k \in (i + 1)..(j - 1) : s[k].ch # ">"

\* The text without its script blocks (each from "<script" to "</script>",
\* what is between them included) and without its tags, trimmed and cut to
\* max_length characters, with the ellipsis when it was cut.
Cleaned(text, max_length) ==
    LET t == Strip(StripTags(StripScripts(text)))
    IN  IF StrLen(t) > max_length THEN Prefix(t, max_length) \o Ellipsis ELSE t

\* C28: the output of sanitize_text_input holds no HTML tag and no script
\* block, the script tags being removed with all the text between them; it
\* is trimmed and, when longer than max_length, cut to its first max_length
\* characters followed by the ellipsis.
C28_SanitizedHasNoTagNoScriptBlock ==
    (vout.done /\ "notes" \in DOMAIN bundle) =>
        /\ ~HoldsTag(vout.data.notes)
        /\ vout.data.notes = Cleaned(bundle.notes, NotesMaxLength)

\* C29: the special-requirements text of the planning request handed to
\* generate_trip_plan is the sanitized notes that validate_complete_trip_input
\* produced for the submission, not the text the user typed.
C29_PromptCarriesSanitizedNotes ==
    (flow.stage = "planning" /\ conv["r1"] # <<>>) =>
        \A i \in 1..Len(conv["r1"]) :
            conv["r1"][i].role = "human" =>
                conv["r1"][i].content.notes = vout.data.notes

\* Every assistant message that run r has produced requests a tool.
AlwaysRequests(r) ==
    /\ turns[r] # <<>>
    /\ \A i \in 1..Len(Conv(r)) :
          (IsAi(Conv(r)[i]) /\ Conv(r)[i].run = r) => IsRequest(Conv(r)[i])

\* C25, as claimed: the loop has no maximum number of model turns, so a run
\* whose model requests a tool on every turn never reaches a terminal state.
C25_AlwaysRequestingRunNeverEnds ==
    \A r \in Runs : AlwaysRequests(r) => pc[r] # "done"

\* C25, as amended: a run takes at most RecursionLimit super-steps and has
\* ended when it has taken that many; a run whose model requested a tool on
\* every turn ends with GraphRecursionError after the RecursionLimit-th
\* super-step, and generate_trip_plan then returns its error text and logs
\* the call as failed.
C25_RunEndsWithinRecursionLimit ==
    \A r \in Runs :
        /\ steps[r] <= RecursionLimit
        /\ (pc[r] # "idle" /\ steps[r] = RecursionLimit) => pc[r] = "done"
        /\ (pc[r] = "done" /\ AlwaysRequests(r)) =>
              /\ raised[r] /\ steps[r] = RecursionLimit
              /\ mode[r] = "generate" =>
                    /\ result[r] = GenerateErrorText
                    /\ Last(telemetry[r]) = StatusOnRaise

C25_Witness ==
    /\ pc["r1"] = "done" /\ AlwaysRequests("r1") /\ mode["r1"] = "generate"
    /\ result["r1"] = GenerateErrorText /\ steps["r1"] = RecursionLimit

\* C21: searches made one after another on one LocationService, whatever
\* their queries and however earlier calls ended: the start times of two
\* consecutive HTTP requests differ by at least rate_limit_delay.
C21_ConsecutiveRequestsSpaced ==
    \A i \in 1..(Len(requests) - 1) :
        requests[i + 1].start - requests[i].start >= DelayTicks

C21_Witness ==
    /\ Len(requests) >= 2
    /\ requests[1].end > requests[1].start
    /\ requests[2].start = requests[1].start + DelayTicks
    /\ answer["t1"].outcome = "timeout"

\* C22: callers sharing one LocationService: the check and the update of the
\* last request time are mutually exclusive (no two callers are between the
\* check and the update at once), so no two HTTP requests start within
\* rate_limit_delay of each other.
C22_CheckAndUpdateExclusive ==
    /\ \A t, u \in Callers : (gpc[t] = "sleep" /\ gpc[u] = "sleep") => t = u
    /\ \A i, j \in 1..Len(requests) :
          i < j => requests[j].start - requests[i].start >= DelayTicks

\* C23: search never raises: when the request timed out, answered with a
\* non-success status, failed in transport, or its response could not be
\* turned into Location records, search returned the empty list.
C23_SearchNeverRaises ==
    \A t \in Callers :
        /\ ~answer[t].raised
        /\ answer[t].outcome \in Outcomes \ {"ok"} => answer[t].out = <<>>

C23_Witness ==
    /\ answer["t1"].outcome = "bad_record"
    /\ ~answer["t1"].raised /\ answer["t1"].out = <<>>
    /\ gpc["t1"] = "idle"

\* C24: a search with an empty or whitespace-only query returns the empty
\* list at once: no HTTP request, no rate-limit wait (no time passes and the
\* caller is not left waiting), and the last request time is unchanged.
OnlyWhitespace(q) == \A i \in 1..Len(q) : q[i].ch \in Whitespace

C24_BlankQueryLeavesNoTrace ==
    [][(call'.n = call.n + 1 /\ OnlyWhitespace(call'.query)) =>
          /\ answer'[call'.caller] = Returned("none", <<>>)
          /\ gpc'[call'.caller] = "idle"
          /\ UNCHANGED <<requests, last_request_time, gclock, wake, gpc>>]_vars

C24_Witness ==
    /\ call.n >= 2 /\ call.query = Text(<<" ">>)
    /\ answer[call.caller] = Returned("none", <<>>)
    /\ gpc[call.caller] = "idle"
    /\ requests # <<>> /\ last_request_time = requests[Len(requests)].start

\* C26: the delay is measured from the end of the previous call: a request
\* starts no sooner than rate_limit_delay after the previous search call
\* finished.
C26_DelayMeasuredFromEndOfPreviousCall ==
    \A i \in 1..(Len(requests) - 1) :
        requests[i].end # NoEnd =>
            requests[i + 1].start - requests[i].end >= DelayTicks
====
